---- MODULE Spec2Model ----
(***************************************************************************)
(* PayPalProviderService (src/src/service.ts): the Medusa payment-provider *)
(* adapter over the PayPal Orders / Payments APIs.                         *)
(*                                                                         *)
(* Conventions of the model                                                *)
(*  - a JavaScript `undefined` field is the string None;                   *)
(*  - a JavaScript string that the code formats or parses (an amount       *)
(*    value) is a sequence of one-character strings, <<"3",".","5","0">>   *)
(*    for "3.50"; the absent value string is the empty sequence;           *)
(*  - a JavaScript number is the record [whole |-> w, frac |-> f] of its   *)
(*    integer part and its two fraction digits (12.34 is [12, 34], the     *)
(*    integer 350 is [350, 0]); an absent number is NoNumber;              *)
(*  - a payment `data` object is a record of the fields the code reads.    *)
(***************************************************************************)
EXTENDS Integers, Sequences, FiniteSets, TLC

None == "none"
NoStr == << >>

\* ---------------------------------------------------------------- bounds
\* The processor holds at most MaxOrders orders.
MaxOrders == 2

\* ------------------------------------------------------- JavaScript numbers
NoNumber == [whole |-> -1, frac |-> 0]
Zero == [whole |-> 0, frac |-> 0]

\* The number whose value is the integer n.
Num(n) == [whole |-> n, frac |-> 0]

\* The number n / 100, for an integer n >= 0.
Hundredth(n) == [whole |-> n \div 100, frac |-> n % 100]

\* JavaScript truthiness of an amount: undefined and 0 are falsy.
TruthyNumber(x) == x # NoNumber /\ x # Zero

DigitChars == <<"0", "1", "2", "3", "4", "5", "6", "7", "8", "9">>

RECURSIVE IntToStr(_)
\* The decimal digits of the integer n >= 0.
IntToStr(n) ==
  IF n < 10 THEN <<DigitChars[n + 1]>>
  ELSE IntToStr(n \div 10) \o <<DigitChars[(n % 10) + 1]>>

\* The old revisions' conversion, (amount / 100).toFixed(2).
toFixed2Cents(x) ==
  IntToStr(x.whole \div 100) \o <<".">>
    \o <<DigitChars[((x.whole % 100) \div 10) + 1], DigitChars[(x.whole % 10) + 1]>>

\* Number.prototype.toFixed(2): the integer part, a point, two fraction digits.
toFixed2(x) ==
  IntToStr(x.whole) \o <<".">>
    \o <<DigitChars[(x.frac \div 10) + 1], DigitChars[(x.frac % 10) + 1]>>

DigitValue(c) == CHOOSE d \in 0..9 : DigitChars[d + 1] = c

IsDigit(c) == \E d \in 0..9 : DigitChars[d + 1] = c

RECURSIVE StrToInt(_)
\* The integer a sequence of digits denotes (0 for the empty sequence).
StrToInt(s) ==
  IF Len(s) = 0 THEN 0
  ELSE 10 * StrToInt(SubSeq(s, 1, Len(s) - 1)) + DigitValue(s[Len(s)])

RECURSIVE DigitPrefixLen(_)
\* The length of the longest prefix of s that consists of digits.
DigitPrefixLen(s) ==
  IF Len(s) = 0 \/ ~IsDigit(s[1]) THEN 0
  ELSE 1 + DigitPrefixLen(Tail(s))

\* parseFloat on a decimal string: digits, optionally a point and fraction
\* digits (the value is kept to two fraction digits).
parseFloat(s) ==
  LET w == DigitPrefixLen(s)
      rest == SubSeq(s, w + 1, Len(s))
      fr == IF Len(rest) > 0 /\ rest[1] = "."
            THEN SubSeq(rest, 2, 1 + DigitPrefixLen(Tail(rest)))
            ELSE << >>
      f2 == IF Len(fr) = 0 THEN 0
            ELSE IF Len(fr) = 1 THEN 10 * DigitValue(fr[1])
            ELSE 10 * DigitValue(fr[1]) + DigitValue(fr[2])
  IN  [whole |-> StrToInt(SubSeq(s, 1, w)), frac |-> f2]

\* String.prototype.toUpperCase on the currency codes of the model.
toUpperCase(c) ==
  CASE c = "usd" -> "USD"
    [] c = "eur" -> "EUR"
    [] c = "gbp" -> "GBP"
    [] OTHER -> c

\* ------------------------------------------------------------ data objects
\* A payment `data` object, a processor order or capture result: the fields
\* the provider reads.  undef marks the JavaScript value undefined.
\*   camelCaptureId     purchaseUnits[0].payments.captures[0].id
\*   snakeCaptureId     purchase_units[0].payments.captures[0].id
\*   fallbackCaptureId  payments.captures[0].id
\*   camelCurrencyCode  purchaseUnits[0].amount.currencyCode
\*   snakeCurrencyCode  purchase_units[0].amount.currency_code
EmptyData ==
  [undef |-> FALSE, id |-> None, status |-> None,
   capture_id |-> None, camelCaptureId |-> None, snakeCaptureId |-> None,
   fallbackCaptureId |-> None,
   currency_code |-> None, camelCurrencyCode |-> None, snakeCurrencyCode |-> None,
   session_id |-> None, resource_id |-> None, is_saved_token |-> FALSE]

UndefinedData == [EmptyData EXCEPT !.undef = TRUE]

\* `data || {}`
OrEmpty(data) == IF data.undef THEN EmptyData ELSE data

\* getCaptureId with the camelCase and snake_case checks swapped.
getCaptureIdSnakeFirst(result) ==
  IF result.capture_id # None THEN result.capture_id
  ELSE IF result.snakeCaptureId # None THEN result.snakeCaptureId
  ELSE IF result.camelCaptureId # None THEN result.camelCaptureId
  ELSE result.fallbackCaptureId

\* A getCaptureId that falls back to the id at the root of the result, which
\* is the order's id.
getCaptureIdRootId(result) ==
  IF result.capture_id # None THEN result.capture_id
  ELSE IF result.camelCaptureId # None THEN result.camelCaptureId
  ELSE IF result.snakeCaptureId # None THEN result.snakeCaptureId
  ELSE IF result.fallbackCaptureId # None THEN result.fallbackCaptureId
  ELSE result.id

\* getCaptureId: the identifiers of the model are non-empty strings, so a
\* field is truthy exactly when it is present.
getCaptureId(result) ==
  IF result.capture_id # None THEN result.capture_id
  ELSE IF result.camelCaptureId # None THEN result.camelCaptureId
  ELSE IF result.snakeCaptureId # None THEN result.snakeCaptureId
  ELSE result.fallbackCaptureId

\* getCurrencyCode of the revisions that do not look at the flat field.
getCurrencyCodeNoFlat(data) ==
  IF data.camelCurrencyCode # None THEN data.camelCurrencyCode
  ELSE IF data.snakeCurrencyCode # None THEN data.snakeCurrencyCode
  ELSE "USD"

getCurrencyCode(data) ==
  IF data.currency_code # None THEN data.currency_code
  ELSE IF data.camelCurrencyCode # None THEN data.camelCurrencyCode
  ELSE IF data.snakeCurrencyCode # None THEN data.snakeCurrencyCode
  ELSE "USD"

\* PaymentSessionStatus of a processor order status.
SessionStatus(status) ==
  CASE status \in {"CREATED", "SAVED"} -> "pending"
    [] status = "APPROVED" -> "pending"
    [] status = "PAYER_ACTION_REQUIRED" -> "requires_more"
    [] status = "COMPLETED" -> "captured"
    [] status = "VOIDED" -> "canceled"
    [] OTHER -> "pending"

\* getStatus with the COMPLETED case lost (it falls to the default).
getStatusNoCompleted(paypalOrder) ==
  [status |-> IF paypalOrder.status = "COMPLETED" THEN "pending"
              ELSE SessionStatus(paypalOrder.status),
   data |-> paypalOrder]

getStatus(paypalOrder) ==
  [status |-> SessionStatus(paypalOrder.status), data |-> paypalOrder]

\* ------------------------------------------------------------------ state
VARIABLES
  orders,   \* the processor's orders, in creation order: [status, currencyCode]
  sent,     \* the purchase unit of the last order created: [amount, value]
  pc,       \* "idle": the host may invoke an operation; "done": one has ended
  op,       \* the operation that ended
  inp,      \* its input
  out,      \* its outcome: a returned value or a thrown MedusaError
  calls,    \* the processor calls it made, in order
  fn,       \* the helper applied last (specification SpecHelpers)
  arg,      \* its argument
  res,      \* its result
  adapter,  \* the provider instance: [options_, client_]
  running   \* concurrent invocations of authorizePayment
            \* (specification SpecConcurrent)

vars == <<orders, sent, pc, op, inp, out, calls, fn, arg, res, adapter, running>>

\* ------------------------------------------------------------- the processor
OrderIds == <<"ORDER-1", "ORDER-2", "ORDER-3", "ORDER-4">>
CaptureIds == <<"CAPTURE-1", "CAPTURE-2", "CAPTURE-3", "CAPTURE-4">>

\* The index of the order with this id, 0 when the processor has none.
OrderIndex(id) ==
  IF \E i \in 1..Len(orders) : OrderIds[i] = id
  THEN CHOOSE i \in 1..Len(orders) : OrderIds[i] = id
  ELSE 0

\* The index of the order this capture belongs to, 0 when there is none.
CaptureIndex(captureId) ==
  IF \E i \in 1..Len(orders) : CaptureIds[i] = captureId /\ orders[i].status = "COMPLETED"
  THEN CHOOSE i \in 1..Len(orders) : CaptureIds[i] = captureId
  ELSE 0

\* response.result of createOrder, captureOrder and getOrder for order i in
\* the order list os: the SDK's camelCase order object.
OrderResult(os, i) ==
  [EmptyData EXCEPT
     !.id = OrderIds[i],
     !.status = os[i].status,
     !.camelCaptureId = IF os[i].status = "COMPLETED" THEN CaptureIds[i] ELSE None,
     !.camelCurrencyCode = os[i].currencyCode]

\* A failed processor call: the statusCode of the SDK's error (0: an error
\* without a status code, a network failure) and its message.
ApiError(code) ==
  [statusCode |-> code,
   message |-> CASE code = 404 -> "RESOURCE_NOT_FOUND"
                 [] code = 409 -> "ORDER_ALREADY_CAPTURED"
                 [] code = 422 -> "UNPROCESSABLE_ENTITY"
                 [] OTHER -> "network error"]

\* The status codes with which the processor can reject a call.
CreateFailures == {0, 422}
CaptureFailures(i) ==
  {0} \cup (IF i = 0 THEN {404}
            ELSE IF orders[i].status # "APPROVED" THEN {409, 422} ELSE {})
GetFailures(i) == {0} \cup (IF i = 0 THEN {404} ELSE {})
RefundFailures(i) == {0} \cup (IF i = 0 THEN {404} ELSE {422})

\* --------------------------------------------------------- operation records
NoBody ==
  [currencyCode |-> None, value |-> NoStr, customId |-> None,
   paymentSource |-> None, userAction |-> None, hasAmount |-> FALSE,
   card |-> None, customerId |-> None, paypalRequestId |-> None,
   pageSize |-> 0]

\* One processor call: the API method, the order or capture id it names, its
\* body, and how the processor answered (ok, or the error's statusCode).
Call(api, id, body, ok, statusCode) ==
  [api |-> api, id |-> id, body |-> body, ok |-> ok, statusCode |-> statusCode]

NoEvent ==
  [event_type |-> None, custom_id |-> None, customId |-> None, value |-> NoStr,
   units |-> None, unit_custom_id |-> None, unit_customId |-> None,
   unit_value |-> NoStr]

\* context.account_holder.data: undefined, or an object with these fields.
NoHolder ==
  [undef |-> TRUE, id |-> None, email |-> None, name |-> None, phone |-> None]

\* context.customer: undefined, or the host's customer record.
NoCustomer ==
  [undef |-> TRUE, id |-> None, email |-> None, company_name |-> None,
   first_name |-> None, last_name |-> None, phone |-> None]

NoContext ==
  [account_holder |-> NoHolder, customer |-> NoCustomer,
   idempotency_key |-> None]

\* A field the caller did not supply, as opposed to one supplied as undefined.
Absent == "absent"

\* The data object of updateAccountHolder and savePaymentMethod, empty.
NoFields ==
  [id |-> Absent, email |-> Absent, name |-> Absent, phone |-> Absent,
   card |-> Absent]

NoInput ==
  [data |-> UndefinedData, amount |-> NoNumber, currency_code |-> None,
   event |-> NoEvent, context |-> NoContext, fields |-> NoFields]

NoOutput ==
  [kind |-> None, error |-> None, message |-> None, id |-> None,
   status |-> None, data |-> UndefinedData, action |-> None,
   session_id |-> None, amount |-> NoNumber, holder |-> NoHolder,
   list |-> << >>]

Return(fields) == fields @@ [NoOutput EXCEPT !.kind = "return"]

\* throw new MedusaError(type, `PayPal <op> failed: ${error.message || error}`)
Throw(type, message) ==
  [NoOutput EXCEPT !.kind = "throw", !.error = type, !.message = message]

\* ------------------------------------------------------------ construction
\* PayPalOptions: clientId and clientSecret are strings, possibly empty or
\* missing; isSandbox is "true", "false" or missing.
Options(clientId, clientSecret, isSandbox) ==
  [clientId |-> clientId, clientSecret |-> clientSecret, isSandbox |-> isSandbox]

\* A validateOptions that checks the client id alone.
validateOptionsIdOnly(options) ==
  IF options.clientId \in {None, ""}
  THEN Throw("INVALID_DATA",
             "Required option clientId is missing in PayPal provider")
  ELSE [NoOutput EXCEPT !.kind = "return"]

\* static validateOptions(options); the messages are the source's without
\* their back quotes.
validateOptions(options) ==
  IF options.clientId \in {None, ""}
  THEN Throw("INVALID_DATA",
             "Required option clientId is missing in PayPal provider")
  ELSE IF options.clientSecret \in {None, ""}
  THEN Throw("INVALID_DATA",
             "Required option clientSecret is missing in PayPal provider")
  ELSE [NoOutput EXCEPT !.kind = "return"]

\* The SDK client the constructor builds from the options.
Client(options) ==
  [oAuthClientId |-> options.clientId,
   oAuthClientSecret |-> options.clientSecret,
   environment |-> IF options.isSandbox = "true"
                   THEN "Sandbox" ELSE "Production"]

\* constructor(container, options)
Constructor(options) == [options_ |-> options, client_ |-> Client(options)]

\* The options the host is configured with.
HostOptions == Options("client-id", "client-secret", "true")

\* The two invocations of authorizePayment that may run at once.
Invocations == {"first", "second"}

\* An invocation that has not started.
NotStarted ==
  [pc |-> "idle", data |-> UndefinedData, seen |-> None, out |-> NoOutput,
   calls |-> << >>]

\* ------------------------------------------------------------ host inputs
HostAmounts == {Num(0), Num(100), Num(350), Num(1234), Hundredth(1234)}

\* The store sells in one currency, which the host sends in lower case.
HostCurrencies == {"eur"}

InitiateData ==
  {UndefinedData,
   [EmptyData EXCEPT !.session_id = "sess_1"],
   [EmptyData EXCEPT !.session_id = "sess_1", !.resource_id = "tok_1",
                     !.is_saved_token = TRUE]}

Init ==
  /\ orders = << >>
  /\ sent = [amount |-> NoNumber, value |-> NoStr]
  /\ pc = "idle"
  /\ op = None
  /\ inp = NoInput
  /\ out = NoOutput
  /\ calls = << >>
  /\ fn = None
  /\ arg = None
  /\ res = None
  /\ adapter = Constructor(HostOptions)
  /\ running = [p \in Invocations |-> NotStarted]

\* ------------------------------------------------------------ operations
\* The body initiatePayment builds for createOrder.
CreateOrderBody(currency_code, amount, data) ==
  [currencyCode |-> toUpperCase(currency_code),
   value |-> toFixed2(amount),
   customId |-> data.session_id,
   paymentSource |-> IF data.resource_id # None /\ data.is_saved_token
                     THEN data.resource_id ELSE None,
   userAction |-> IF data.resource_id # None /\ data.is_saved_token
                  THEN None ELSE "PAY_NOW",
   hasAmount |-> TRUE]

\* initiatePayment(input), called as operation name (updatePayment calls it too).
InitiateAs(name, currency_code, amount, data) ==
  /\ pc = "idle"
  /\ pc' = "done"
  /\ op' = name
  /\ inp' = [NoInput EXCEPT !.data = data, !.amount = amount,
                            !.currency_code = currency_code]
  /\ UNCHANGED <<fn, arg, res, adapter, running>>
  /\ IF currency_code = None
     THEN \* currency_code.toUpperCase() throws inside the try block
          /\ out' = Throw("PAYMENT_AUTHORIZATION_ERROR", "TypeError")
          /\ calls' = << >>
          /\ UNCHANGED <<orders, sent>>
     ELSE IF amount = NoNumber
     THEN \* new BigNumber(undefined) throws inside the try block
          /\ out' = Throw("PAYMENT_AUTHORIZATION_ERROR", "Invalid BigNumber value")
          /\ calls' = << >>
          /\ UNCHANGED <<orders, sent>>
     ELSE LET body == CreateOrderBody(currency_code, amount, data) IN
          \/ \E status \in {"CREATED", "PAYER_ACTION_REQUIRED"} :
               LET os == Append(orders, [status |-> status,
                                         currencyCode |-> body.currencyCode])
                   order == OrderResult(os, Len(os))
               IN  /\ Len(orders) < MaxOrders
                   /\ orders' = os
                   /\ sent' = [amount |-> amount, value |-> body.value]
                   /\ calls' = <<Call("createOrder", None, body, TRUE, 0)>>
                   /\ out' = Return([id |-> order.id] @@ getStatus(order))
          \/ \E code \in CreateFailures :
               /\ calls' = <<Call("createOrder", None, body, FALSE, code)>>
               /\ out' = Throw("PAYMENT_AUTHORIZATION_ERROR", ApiError(code).message)
               /\ UNCHANGED <<orders, sent>>

initiatePayment ==
  \E currency_code \in HostCurrencies \cup {None},
     amount \in HostAmounts \cup {NoNumber},
     data \in InitiateData :
    InitiateAs("initiatePayment", currency_code, amount, data)

\* The data the host passes to updatePayment: as for initiatePayment, or the
\* session's data with the id of the order created for it before.
UpdateData ==
  InitiateData
    \cup {[EmptyData EXCEPT !.id = OrderIds[i], !.session_id = "sess_1"] :
            i \in 1..Len(orders)}

\* An updatePayment that patches the amount of the order named in its input.
updatePaymentInPlace ==
  \E amount \in HostAmounts, data \in UpdateData :
    /\ pc = "idle"
    /\ OrderIndex(data.id) # 0
    /\ pc' = "done"
    /\ op' = "updatePayment"
    /\ inp' = [NoInput EXCEPT !.data = data, !.amount = amount,
                              !.currency_code = "eur"]
    /\ sent' = [amount |-> amount, value |-> toFixed2(amount)]
    /\ calls' = <<Call("patchOrder", data.id, NoBody, TRUE, 0)>>
    /\ out' = Return([id |-> data.id]
                       @@ getStatus(OrderResult(orders, OrderIndex(data.id))))
    /\ UNCHANGED <<orders, fn, arg, res, adapter, running>>

\* updatePayment(input): return await this.initiatePayment(input)
updatePayment ==
  \E currency_code \in HostCurrencies \cup {None},
     amount \in HostAmounts \cup {NoNumber},
     data \in UpdateData :
    InitiateAs("updatePayment", currency_code, amount, data)

\* The data the host holds for a payment session and passes to the provider:
\* none, an empty object, a session without an order yet, an order that the
\* processor may or may not know,
\* and the data authorizePayment returned for a captured order.
HostData ==
  {UndefinedData, EmptyData, [EmptyData EXCEPT !.session_id = "sess_1"],
   [EmptyData EXCEPT !.id = "ORDER-X"]}
    \cup {[EmptyData EXCEPT !.id = OrderIds[i]] : i \in 1..MaxOrders}
    \cup {[EmptyData EXCEPT !.id = OrderIds[i], !.status = "COMPLETED",
                            !.camelCaptureId = CaptureIds[i],
                            !.camelCurrencyCode = "EUR",
                            !.capture_id = CaptureIds[i],
                            !.currency_code = "EUR"] : i \in 1..MaxOrders}

\* The status result returned as it is, capture_id and currency_code not
\* merged into its data.
StatusOfResultUnmerged(result) ==
  Return([status |-> getStatus(result).status, data |-> getStatus(result).data])

\* What authorizePayment and getPaymentStatus return for a fetched or
\* captured order: { ...statusResult, data: { ...statusResult.data,
\* capture_id, currency_code } }
StatusOfResult(result) ==
  Return([status |-> getStatus(result).status,
          data |-> [getStatus(result).data EXCEPT
                      !.capture_id = getCaptureId(result),
                      !.currency_code = getCurrencyCode(result)]])

\* getPaymentStatus without an order id, the input data dropped.
NoOrderIdStatusDropsData(data) ==
  Return([status |-> "pending", data |-> EmptyData])

\* if (!orderId) return { status: PENDING, data: data || {} }
NoOrderIdStatus(data) ==
  Return([status |-> "pending", data |-> OrEmpty(data)])

\* The catch block of getPaymentStatus, returning no data with the error.
FetchFailedStatusEmpty(data, error) ==
  Return([status |-> "error", data |-> EmptyData])

\* The catch block of getPaymentStatus, rethrowing like the other operations.
FetchFailedStatusThrows(data, error) ==
  Throw("PAYMENT_AUTHORIZATION_ERROR", error.message)

\* catch (error) { return { status: ERROR, data: data || {} } }
FetchFailedStatus(data, error) ==
  Return([status |-> "error", data |-> OrEmpty(data)])

\* The outcomes of getPaymentStatus(input) in the current processor state:
\* the value returned and the calls made.
PaymentStatusOutcomes(data) ==
  IF data.id = None
  THEN {[out |-> NoOrderIdStatus(data), calls |-> << >>]}
  ELSE LET i == OrderIndex(data.id) IN
       (IF i # 0
        THEN {[out |-> StatusOfResult(OrderResult(orders, i)),
               calls |-> <<Call("getOrder", data.id, NoBody, TRUE, 0)>>]}
        ELSE {})
       \cup {[out |-> FetchFailedStatus(data, ApiError(code)),
              calls |-> <<Call("getOrder", data.id, NoBody, FALSE, code)>>] :
               code \in GetFailures(i)}

\* getPaymentStatus(input), called as operation name (capturePayment and
\* retrievePayment call it too).
\* A getPaymentStatus that fetches the order again when the fetch failed.
GetPaymentStatusAsRetrying(name, data) ==
  /\ pc = "idle"
  /\ pc' = "done"
  /\ op' = name
  /\ inp' = [NoInput EXCEPT !.data = data]
  /\ \E r \in PaymentStatusOutcomes(data) :
       /\ out' = r.out
       /\ calls' = IF r.calls # << >> /\ ~r.calls[1].ok
                   THEN r.calls \o r.calls ELSE r.calls
  /\ UNCHANGED <<orders, sent, fn, arg, res, adapter, running>>

GetPaymentStatusAs(name, data) ==
  /\ pc = "idle"
  /\ pc' = "done"
  /\ op' = name
  /\ inp' = [NoInput EXCEPT !.data = data]
  /\ \E r \in PaymentStatusOutcomes(data) :
       /\ out' = r.out
       /\ calls' = r.calls
  /\ UNCHANGED <<orders, sent, fn, arg, res, adapter, running>>

getPaymentStatus == \E data \in HostData : GetPaymentStatusAs("getPaymentStatus", data)

\* A capturePayment that captures the approved order at the processor.
capturePaymentCapturing ==
  \E data \in HostData :
    LET i == OrderIndex(data.id)
        os == [orders EXCEPT ![i].status = "COMPLETED"]
    IN  /\ pc = "idle"
        /\ i # 0
        /\ orders[i].status = "APPROVED"
        /\ pc' = "done"
        /\ op' = "capturePayment"
        /\ inp' = [NoInput EXCEPT !.data = data]
        /\ orders' = os
        /\ calls' = <<Call("captureOrder", data.id, NoBody, TRUE, 0)>>
        /\ out' = Return(getStatus(OrderResult(os, i)))
        /\ UNCHANGED <<sent, fn, arg, res, adapter, running>>

\* capturePayment(input): return this.getPaymentStatus(input)
capturePayment == \E data \in HostData : GetPaymentStatusAs("capturePayment", data)

retrievePayment == \E data \in HostData : GetPaymentStatusAs("retrievePayment", data)

\* The test of the catch block of authorizePayment, on the other conflict code.
IsAlreadyCaptured409(error) == error.statusCode = 409

\* error.statusCode === 422
IsAlreadyCaptured(error) == error.statusCode = 422

\* An authorizePayment that takes the 422 for proof of capture and reports
\* the payment captured without fetching the order.
authorizePaymentTrusting ==
  \E data \in HostData :
    /\ pc = "idle"
    /\ pc' = "done"
    /\ op' = "authorizePayment"
    /\ inp' = [NoInput EXCEPT !.data = data]
    /\ UNCHANGED <<sent, fn, arg, res, adapter, running>>
    /\ IF data.id = None
       THEN /\ out' = Throw("INVALID_DATA", "No PayPal order ID found for authorizePayment")
            /\ calls' = << >>
            /\ UNCHANGED orders
       ELSE LET i == OrderIndex(data.id) IN
            \/ /\ i # 0
               /\ orders[i].status = "APPROVED"
               /\ orders' = [orders EXCEPT ![i].status = "COMPLETED"]
               /\ out' = StatusOfResult(OrderResult(orders', i))
               /\ calls' = <<Call("captureOrder", data.id, NoBody, TRUE, 0)>>
            \/ \E code \in CaptureFailures(i) :
                 /\ UNCHANGED orders
                 /\ calls' = <<Call("captureOrder", data.id, NoBody, FALSE, code)>>
                 /\ out' = IF IsAlreadyCaptured(ApiError(code))
                           THEN Return([status |-> "captured", data |-> data])
                           ELSE Throw("PAYMENT_AUTHORIZATION_ERROR",
                                      ApiError(code).message)

authorizePayment ==
  \E data \in HostData :
    /\ pc = "idle"
    /\ pc' = "done"
    /\ op' = "authorizePayment"
    /\ inp' = [NoInput EXCEPT !.data = data]
    /\ UNCHANGED <<sent, fn, arg, res, adapter, running>>
    /\ IF data.id = None
       THEN /\ out' = Throw("INVALID_DATA", "No PayPal order ID found for authorizePayment")
            /\ calls' = << >>
            /\ UNCHANGED orders
       ELSE LET i == OrderIndex(data.id) IN
            \/ /\ i # 0
               /\ orders[i].status = "APPROVED"
               /\ orders' = [orders EXCEPT ![i].status = "COMPLETED"]
               /\ out' = StatusOfResult(OrderResult(orders', i))
               /\ calls' = <<Call("captureOrder", data.id, NoBody, TRUE, 0)>>
            \/ \E code \in CaptureFailures(i) :
                 LET call == Call("captureOrder", data.id, NoBody, FALSE, code) IN
                 /\ UNCHANGED orders
                 /\ IF IsAlreadyCaptured(ApiError(code))
                    THEN \E r \in PaymentStatusOutcomes(data) :
                           /\ out' = r.out
                           /\ calls' = <<call>> \o r.calls
                    ELSE /\ out' = Throw("PAYMENT_AUTHORIZATION_ERROR",
                                         ApiError(code).message)
                         /\ calls' = <<call>>

\* A cancelPayment that looks the order up at the processor first.
CancelAsFetching(name, data) ==
  /\ pc = "idle"
  /\ pc' = "done"
  /\ op' = name
  /\ inp' = [NoInput EXCEPT !.data = data]
  /\ out' = Return([data |-> data])
  /\ calls' = <<Call("getOrder", data.id, NoBody, TRUE, 0)>>
  /\ UNCHANGED <<orders, sent, fn, arg, res, adapter, running>>

\* cancelPayment(input), called as operation name (deletePayment calls it too).
CancelAs(name, data) ==
  /\ pc = "idle"
  /\ pc' = "done"
  /\ op' = name
  /\ inp' = [NoInput EXCEPT !.data = data]
  /\ out' = Return([data |-> data])
  /\ calls' = << >>
  /\ UNCHANGED <<orders, sent, fn, arg, res, adapter, running>>

cancelPayment == \E data \in HostData : CancelAs("cancelPayment", data)

deletePayment == \E data \in HostData : CancelAs("deletePayment", data)

\* The data the host passes to refundPayment: what it holds for the session,
\* or an object with a capture id on one or two of the paths.
RefundData ==
  HostData
    \cup {[EmptyData EXCEPT !.capture_id = CaptureIds[1]],
          [EmptyData EXCEPT !.camelCaptureId = CaptureIds[1]],
          [EmptyData EXCEPT !.snakeCaptureId = CaptureIds[1]],
          [EmptyData EXCEPT !.fallbackCaptureId = CaptureIds[1]],
          [EmptyData EXCEPT !.camelCaptureId = CaptureIds[1],
                            !.snakeCaptureId = "CAPTURE-X",
                            !.snakeCurrencyCode = "usd"]}

\* if (amount)
IsAmountTruthy(amount) == TruthyNumber(amount)

\* The body refundPayment builds for refundCapturedPayment.
RefundRequest(data, amount) ==
  IF IsAmountTruthy(amount)
  THEN [NoBody EXCEPT !.currencyCode = toUpperCase(getCurrencyCode(data)),
                      !.value = toFixed2(amount),
                      !.hasAmount = TRUE]
  ELSE NoBody

\* response.result of refundCapturedPayment.
RefundResult == [EmptyData EXCEPT !.id = "REFUND-1", !.status = "COMPLETED"]

\* The missing capture id reported from inside the try block, and so wrapped.
MissingCaptureIdWrapped ==
  Throw("PAYMENT_AUTHORIZATION_ERROR", "No capture ID found for refund")

\* if (!captureId) throw new MedusaError(INVALID_DATA, ...)
MissingCaptureId == Throw("INVALID_DATA", "No capture ID found for refund")

refundPayment ==
  \E data \in RefundData, amount \in HostAmounts \cup {NoNumber} :
    /\ pc = "idle"
    /\ pc' = "done"
    /\ op' = "refundPayment"
    /\ inp' = [NoInput EXCEPT !.data = data, !.amount = amount]
    /\ UNCHANGED <<orders, sent, fn, arg, res, adapter, running>>
    /\ LET captureId == getCaptureId(data) IN
       IF captureId = None
       THEN /\ out' = MissingCaptureId
            /\ calls' = << >>
       ELSE LET i == CaptureIndex(captureId)
                body == RefundRequest(data, amount)
            IN  \/ /\ i # 0
                   /\ calls' = <<Call("refundCapturedPayment", captureId, body, TRUE, 0)>>
                   /\ out' = Return([data |-> RefundResult])
                \/ \E code \in RefundFailures(i) :
                     /\ calls' = <<Call("refundCapturedPayment", captureId, body,
                                        FALSE, code)>>
                     /\ out' = Throw("PAYMENT_AUTHORIZATION_ERROR",
                                     ApiError(code).message)

\* ---------------------------------------------------------------- webhooks
\* The amount values of webhook resources: absent, a sample, and the value
\* of the purchase unit the provider sent last, echoed by the processor.
WebhookValues ==
  {NoStr, <<"1", "2", ".", "3", "4">>} \cup {sent.value}

WebhookEvents ==
  {[NoEvent EXCEPT !.event_type = t, !.custom_id = c.snake, !.customId = c.camel,
                   !.value = v] :
     t \in {"PAYMENT.CAPTURE.COMPLETED", "PAYMENT.CAPTURE.DENIED",
            "PAYMENT.CAPTURE.DECLINED", "PAYMENT.CAPTURE.REFUNDED",
            "CUSTOMER.DISPUTE.CREATED", None},
     c \in {[snake |-> "sess_1", camel |-> None], [snake |-> None, camel |-> "sess_2"],
            [snake |-> "sess_1", camel |-> "sess_2"], [snake |-> None, camel |-> None]},
     v \in WebhookValues}
    \cup
  {[NoEvent EXCEPT !.event_type = "CHECKOUT.ORDER.APPROVED", !.units = u,
                   !.unit_custom_id = c.snake, !.unit_customId = c.camel,
                   !.unit_value = v] :
     u \in {None, "purchaseUnits", "purchase_units"},
     c \in {[snake |-> "sess_1", camel |-> None], [snake |-> None, camel |-> "sess_2"],
            [snake |-> None, camel |-> None]},
     v \in WebhookValues}

\* a || b on two optional identifiers
OrElse(a, b) == IF a # None THEN a ELSE b

\* getAmount: parseFloat(obj?.amount?.value || "0")
getAmount(value) == parseFloat(IF value = NoStr THEN <<"0">> ELSE value)

\* A table without the case for PAYMENT.CAPTURE.DECLINED, which then falls
\* to the default.
WebhookResultNoDeclined(e) ==
  CASE e.event_type \in {"PAYMENT.CAPTURE.COMPLETED", "PAYMENT.CAPTURE.REFUNDED"} ->
         Return([action |-> "SUCCESSFUL",
                 session_id |-> OrElse(e.custom_id, e.customId),
                 amount |-> getAmount(e.value)])
    [] e.event_type = "PAYMENT.CAPTURE.DENIED" ->
         Return([action |-> "FAILED",
                 session_id |-> OrElse(e.custom_id, e.customId),
                 amount |-> getAmount(e.value)])
    [] e.event_type = "CHECKOUT.ORDER.APPROVED" ->
         IF e.units = None
         THEN Return([action |-> "AUTHORIZED", session_id |-> None,
                      amount |-> getAmount(NoStr)])
         ELSE Return([action |-> "AUTHORIZED",
                      session_id |-> OrElse(e.unit_custom_id, e.unit_customId),
                      amount |-> getAmount(e.unit_value)])
    [] OTHER ->
         Return([action |-> "NOT_SUPPORTED", session_id |-> "", amount |-> Zero])

\* The value getWebhookActionAndData returns for an event.
WebhookResult(e) ==
  CASE e.event_type = "PAYMENT.CAPTURE.COMPLETED" ->
         Return([action |-> "SUCCESSFUL",
                 session_id |-> OrElse(e.custom_id, e.customId),
                 amount |-> getAmount(e.value)])
    [] e.event_type \in {"PAYMENT.CAPTURE.DENIED", "PAYMENT.CAPTURE.DECLINED"} ->
         Return([action |-> "FAILED",
                 session_id |-> OrElse(e.custom_id, e.customId),
                 amount |-> getAmount(e.value)])
    [] e.event_type = "CHECKOUT.ORDER.APPROVED" ->
         IF e.units = None
         THEN Return([action |-> "AUTHORIZED", session_id |-> None,
                      amount |-> getAmount(NoStr)])
         ELSE Return([action |-> "AUTHORIZED",
                      session_id |-> OrElse(e.unit_custom_id, e.unit_customId),
                      amount |-> getAmount(e.unit_value)])
    [] e.event_type = "PAYMENT.CAPTURE.REFUNDED" ->
         Return([action |-> "SUCCESSFUL",
                 session_id |-> OrElse(e.custom_id, e.customId),
                 amount |-> getAmount(e.value)])
    [] OTHER ->
         Return([action |-> "NOT_SUPPORTED", session_id |-> "", amount |-> Zero])

getWebhookActionAndData ==
  \E e \in WebhookEvents :
    /\ pc = "idle"
    /\ pc' = "done"
    /\ op' = "getWebhookActionAndData"
    /\ inp' = [NoInput EXCEPT !.event = e]
    /\ out' = WebhookResult(e)
    /\ calls' = << >>
    /\ UNCHANGED <<orders, sent, fn, arg, res, adapter, running>>

\* ------------------------------------------------- account holders, vault
\* JavaScript falsiness of an optional string.
Falsy(s) == s \in {None, ""}

\* a || b on two optional strings
OrString(a, b) == IF Falsy(a) THEN b ELSE a

\* `${first_name ?? ""} ${last_name ?? ""}`.trim(), for names that neither
\* begin nor end with white space.
FullName(first_name, last_name) ==
  LET first == IF first_name = None THEN "" ELSE first_name
      last == IF last_name = None THEN "" ELSE last_name
  IN  CASE first = "" /\ last = "" -> ""
        [] first = "" -> last
        [] last = "" -> first
        [] OTHER -> first \o " " \o last

\* The contexts the host passes: no account holder, one without an id, or the
\* stored one; no customer, or the customer as the host knows them now.
StoredHolder ==
  [undef |-> FALSE, id |-> "paypal_cus_0", email |-> "old@example.com",
   name |-> "Old Name", phone |-> None]
HostHolders == {NoHolder, [NoHolder EXCEPT !.undef = FALSE], StoredHolder}
HostCustomer ==
  [undef |-> FALSE, id |-> "cus_1", email |-> "ada@example.com",
   company_name |-> None, first_name |-> "Ada", last_name |-> "Lovelace",
   phone |-> "555"]
HostCustomers == {NoCustomer, HostCustomer}
HostContexts ==
  {[NoContext EXCEPT !.account_holder = h, !.customer = c] :
     h \in HostHolders, c \in HostCustomers}

\* A createAccountHolder that derives the id from the customer every time.
CreateAccountHolderAnew(context) ==
  IF context.customer.undef
  THEN Throw("INVALID_DATA",
             "No customer provided while creating account holder")
  ELSE Return([id |-> "paypal_" \o context.customer.id])

\* createAccountHolder's outcome.
CreateAccountHolderOutcome(context) ==
  LET account_holder == context.account_holder
      customer == context.customer
  IN  IF ~Falsy(account_holder.id)
      THEN Return([id |-> account_holder.id])
      ELSE IF customer.undef
      THEN Throw("INVALID_DATA",
                 "No customer provided while creating account holder")
      ELSE LET paypalCustomerId == "paypal_" \o customer.id
           IN  Return([id |-> paypalCustomerId,
                       holder |->
                         [undef |-> FALSE,
                          id |-> paypalCustomerId,
                          email |-> customer.email,
                          name |-> OrString(customer.company_name,
                                     OrString(FullName(customer.first_name,
                                                       customer.last_name),
                                              None)),
                          phone |-> customer.phone]])

createAccountHolder ==
  /\ pc = "idle"
  /\ \E context \in HostContexts :
       /\ inp' = [NoInput EXCEPT !.context = context]
       /\ out' = CreateAccountHolderOutcome(context)
  /\ pc' = "done"
  /\ op' = "createAccountHolder"
  /\ calls' = << >>
  /\ UNCHANGED <<orders, sent, fn, arg, res, adapter, running>>

\* { ...stored, ...supplied }: a supplied field replaces the stored one.
Spread(stored, supplied) == IF supplied = Absent THEN stored ELSE supplied

\* An updatedData in which a supplied email or name replaces the computed one.
UpdatedDataSuppliedWins(account_holder, customer, data) ==
  [undef |-> FALSE,
   id |-> Spread(account_holder.id, data.id),
   phone |-> Spread(account_holder.phone, data.phone),
   email |-> Spread(OrString(customer.email, account_holder.email), data.email),
   name |-> Spread(OrString(customer.company_name,
                     OrString(FullName(customer.first_name,
                                       customer.last_name),
                              account_holder.name)),
                   data.name)]

\* updatedData of updateAccountHolder.
UpdatedData(account_holder, customer, data) ==
  [undef |-> FALSE,
   id |-> Spread(account_holder.id, data.id),
   phone |-> Spread(account_holder.phone, data.phone),
   email |-> OrString(customer.email, account_holder.email),
   name |-> OrString(customer.company_name,
              OrString(FullName(customer.first_name, customer.last_name),
                       account_holder.name))]

\* updateAccountHolder without its check of the account-holder id.
UpdateAccountHolderUnchecked(context, data) ==
  Return([holder |->
            UpdatedData(context.account_holder, context.customer, data)])

UpdateAccountHolderOutcome(context, data) ==
  IF Falsy(context.account_holder.id)
  THEN Throw("INVALID_DATA", "Missing account holder ID")
  ELSE Return([holder |->
                 UpdatedData(context.account_holder, context.customer, data)])

\* The fields the host supplies to updateAccountHolder.
HostFields ==
  {NoFields,
   [NoFields EXCEPT !.email = "new@example.com", !.name = "New Name",
                    !.phone = "777"]}

updateAccountHolder ==
  /\ pc = "idle"
  /\ \E context \in HostContexts, data \in HostFields :
       /\ inp' = [NoInput EXCEPT !.context = context, !.fields = data]
       /\ out' = UpdateAccountHolderOutcome(context, data)
  /\ pc' = "done"
  /\ op' = "updateAccountHolder"
  /\ calls' = << >>
  /\ UNCHANGED <<orders, sent, fn, arg, res, adapter, running>>

\* A deleteAccountHolder that drops the client's credentials with the holder.
deleteAccountHolderClearing ==
  /\ pc = "idle"
  /\ \E h \in HostHolders :
       /\ inp' = [NoInput EXCEPT !.context.account_holder = h]
       /\ out' = IF Falsy(h.id)
                 THEN Throw("INVALID_DATA", "Missing account holder ID")
                 ELSE [NoOutput EXCEPT !.kind = "return"]
  /\ pc' = "done"
  /\ op' = "deleteAccountHolder"
  /\ calls' = << >>
  /\ adapter' = [adapter EXCEPT !.client_.oAuthClientSecret = None]
  /\ UNCHANGED <<orders, sent, fn, arg, res, running>>

deleteAccountHolder ==
  /\ pc = "idle"
  /\ \E h \in HostHolders :
       /\ inp' = [NoInput EXCEPT !.context.account_holder = h]
       /\ out' = IF Falsy(h.id)
                 THEN Throw("INVALID_DATA", "Missing account holder ID")
                 ELSE [NoOutput EXCEPT !.kind = "return"]
  /\ pc' = "done"
  /\ op' = "deleteAccountHolder"
  /\ calls' = << >>
  /\ UNCHANGED <<orders, sent, fn, arg, res, adapter, running>>

\* The status codes with which the vault can reject a call.
SetupFailures == {0, 422}
ListFailures == {0, 404, 422}

\* payment_source.card of the setup token request: data?.card || {}
EmptyCard == "{}"
SetupCard(data) == IF data.card \in {Absent, None} THEN EmptyCard ELSE data.card

SetupTokenBody(context, data) ==
  [NoBody EXCEPT !.card = SetupCard(data),
                 !.customerId = context.account_holder.id,
                 !.paypalRequestId = context.idempotency_key]

savePaymentMethod ==
  /\ pc = "idle"
  /\ \E h \in HostHolders, key \in {None, "key_1"},
        card \in {Absent, "card_1"} :
       LET context == [NoContext EXCEPT !.account_holder = h,
                                        !.idempotency_key = key]
           data == [NoFields EXCEPT !.card = card]
       IN  /\ inp' = [NoInput EXCEPT !.context = context, !.fields = data]
           /\ IF Falsy(h.id)
              THEN /\ out' = Throw("INVALID_DATA",
                             "Missing account holder ID for saving payment method")
                   /\ calls' = << >>
              ELSE \/ \E id \in {None, "setup_1"} :
                        /\ out' = Return([id |-> OrString(id, ""),
                                          data |-> [EmptyData EXCEPT !.id = id]])
                        /\ calls' = <<Call("createSetupToken", None,
                                           SetupTokenBody(context, data),
                                           TRUE, 0)>>
                   \/ \E code \in SetupFailures :
                        /\ out' = Throw("PAYMENT_AUTHORIZATION_ERROR",
                                        ApiError(code).message)
                        /\ calls' = <<Call("createSetupToken", None,
                                           SetupTokenBody(context, data),
                                           FALSE, code)>>
  /\ pc' = "done"
  /\ op' = "savePaymentMethod"
  /\ UNCHANGED <<orders, sent, fn, arg, res, adapter, running>>

\* pageSize of the list request
PageSize == 100

\* What the vault answers to a list request: result.paymentTokens, which may
\* be missing.
VaultResults ==
  {[undef |-> TRUE, paymentTokens |-> << >>],
   [undef |-> FALSE, paymentTokens |-> << >>],
   [undef |-> FALSE, paymentTokens |-> <<"tok_1">>],
   [undef |-> FALSE, paymentTokens |-> <<"tok_1", "tok_2">>]}

\* (response.result.paymentTokens || []).map(token => ({id, data: token}))
MapTokens(result) ==
  [i \in 1..Len(result.paymentTokens) |->
     [id |-> result.paymentTokens[i], data |-> result.paymentTokens[i]]]

\* A test that takes every client error for "no payment tokens".
IsNotFoundAny(error) == error.statusCode \in {404, 422}
\* if (error.statusCode === 404) return []
IsNotFound(error) == error.statusCode = 404

ListFailedOutcome(error) ==
  IF IsNotFound(error)
  THEN Return([list |-> << >>])
  ELSE Throw("INVALID_DATA", error.message)

listPaymentMethods ==
  /\ pc = "idle"
  /\ \E h \in HostHolders :
       /\ inp' = [NoInput EXCEPT !.context.account_holder = h]
       /\ IF Falsy(h.id)
          THEN /\ out' = Return([list |-> << >>])
               /\ calls' = << >>
          ELSE LET body == [NoBody EXCEPT !.pageSize = PageSize] IN
               \/ \E result \in VaultResults :
                    /\ out' = Return([list |-> MapTokens(result)])
                    /\ calls' = <<Call("listCustomerPaymentTokens", h.id,
                                       body, TRUE, 0)>>
               \/ \E code \in ListFailures :
                    /\ out' = ListFailedOutcome(ApiError(code))
                    /\ calls' = <<Call("listCustomerPaymentTokens", h.id,
                                       body, FALSE, code)>>
  /\ pc' = "done"
  /\ op' = "listPaymentMethods"
  /\ UNCHANGED <<orders, sent, fn, arg, res, adapter, running>>

\* ------------------------------------------------------------- environment
\* The host takes the outcome; the next operation may start.
HostReceive ==
  /\ pc = "done"
  /\ pc' = "idle"
  /\ op' = None
  /\ inp' = NoInput
  /\ out' = NoOutput
  /\ calls' = << >>
  /\ UNCHANGED <<orders, sent, fn, arg, res, adapter, running>>

\* The payer approves an order on the processor's pages.
PayerApproves ==
  /\ pc = "idle"
  /\ \E i \in 1..Len(orders) :
       /\ orders[i].status \in {"CREATED", "PAYER_ACTION_REQUIRED"}
       /\ orders' = [orders EXCEPT ![i].status = "APPROVED"]
  /\ UNCHANGED <<sent, pc, op, inp, out, calls, fn, arg, res, adapter, running>>

\* ------------------------------------------- authorizePayment, interleaved
\* authorizePayment awaits the processor twice, at captureOrder and, in the
\* fallback, at getOrder; another invocation may run at either await.

\* The processor states in which the invocations start: orders the payer has
\* been sent to, has approved, or that are captured already.
ConcurrentOrders ==
  UNION {[1..n -> {[status |-> s, currencyCode |-> "EUR"] :
                     s \in {"CREATED", "APPROVED", "COMPLETED"}}] :
           n \in 1..MaxOrders}

InitConcurrent ==
  /\ orders \in ConcurrentOrders
  /\ sent = [amount |-> Num(100), value |-> toFixed2(Num(100))]
  /\ pc = "idle"
  /\ op = None
  /\ inp = NoInput
  /\ out = NoOutput
  /\ calls = << >>
  /\ fn = None
  /\ arg = None
  /\ res = None
  /\ adapter = Constructor(HostOptions)
  /\ running = [p \in Invocations |-> NotStarted]

\* The data the host passes to the invocations: no order id, or the id of an
\* order.
ConcurrentData ==
  {EmptyData} \cup {[EmptyData EXCEPT !.id = OrderIds[i]] : i \in 1..Len(orders)}

\* authorizePayment(input) up to its first await; seen remembers the status
\* the order had at the processor at that moment.
StartAuthorize(p) ==
  /\ running[p].pc = "idle"
  /\ \E data \in ConcurrentData :
       running' =
         [running EXCEPT ![p] =
            IF data.id = None
            THEN [NotStarted EXCEPT
                    !.pc = "done", !.data = data,
                    !.out = Throw("INVALID_DATA",
                                  "No PayPal order ID found for authorizePayment")]
            ELSE [NotStarted EXCEPT
                    !.pc = "capture", !.data = data,
                    !.seen = orders[OrderIndex(data.id)].status]]
  /\ UNCHANGED <<orders, sent, pc, op, inp, out, calls, fn, arg, res, adapter>>

\* The processor answers the capture-order call; a 422 is thrown on like
\* every other failure.
AnswerCaptureRethrowing(p) ==
  LET r == running[p]
      i == OrderIndex(r.data.id)
  IN  /\ r.pc = "capture"
      /\ \/ /\ orders[i].status = "APPROVED"
            /\ orders' = [orders EXCEPT ![i].status = "COMPLETED"]
            /\ running' =
                 [running EXCEPT ![p] =
                    [r EXCEPT !.pc = "done",
                              !.out = StatusOfResult(OrderResult(orders', i)),
                              !.calls = <<Call("captureOrder", r.data.id,
                                               NoBody, TRUE, 0)>>]]
         \/ \E code \in CaptureFailures(i) :
              /\ UNCHANGED orders
              /\ running' =
                   [running EXCEPT ![p] =
                      [r EXCEPT !.pc = "done",
                                !.out = Throw("PAYMENT_AUTHORIZATION_ERROR",
                                              ApiError(code).message),
                                !.calls = <<Call("captureOrder", r.data.id,
                                                 NoBody, FALSE, code)>>]]
      /\ UNCHANGED <<sent, pc, op, inp, out, calls, fn, arg, res, adapter>>

\* The processor answers the capture-order call of invocation p, and the
\* invocation runs on to its return, its throw or its second await.
AnswerCapture(p) ==
  LET r == running[p]
      i == OrderIndex(r.data.id)
  IN  /\ r.pc = "capture"
      /\ \/ /\ orders[i].status = "APPROVED"
            /\ orders' = [orders EXCEPT ![i].status = "COMPLETED"]
            /\ running' =
                 [running EXCEPT ![p] =
                    [r EXCEPT !.pc = "done",
                              !.out = StatusOfResult(OrderResult(orders', i)),
                              !.calls = <<Call("captureOrder", r.data.id,
                                               NoBody, TRUE, 0)>>]]
         \/ \E code \in CaptureFailures(i) :
              LET call == Call("captureOrder", r.data.id, NoBody, FALSE, code) IN
              /\ UNCHANGED orders
              /\ running' =
                   [running EXCEPT ![p] =
                      IF IsAlreadyCaptured(ApiError(code))
                      THEN [r EXCEPT !.pc = "fetch", !.calls = <<call>>]
                      ELSE [r EXCEPT !.pc = "done",
                                     !.out = Throw("PAYMENT_AUTHORIZATION_ERROR",
                                                   ApiError(code).message),
                                     !.calls = <<call>>]]
      /\ UNCHANGED <<sent, pc, op, inp, out, calls, fn, arg, res, adapter>>

\* The processor answers the get-order call of the fallback, and the
\* invocation returns what getPaymentStatus returns.
AnswerGetOrder(p) ==
  LET r == running[p] IN
  /\ r.pc = "fetch"
  /\ \E o \in PaymentStatusOutcomes(r.data) :
       running' = [running EXCEPT ![p] =
                     [r EXCEPT !.pc = "done", !.out = o.out,
                               !.calls = r.calls \o o.calls]]
  /\ UNCHANGED <<orders, sent, pc, op, inp, out, calls, fn, arg, res, adapter>>

NextConcurrent ==
  \/ \E p \in Invocations : StartAuthorize(p)
  \/ \E p \in Invocations : AnswerCapture(p)
  \/ \E p \in Invocations : AnswerGetOrder(p)
  \/ PayerApproves

SpecConcurrent == InitConcurrent /\ [][NextConcurrent]_vars

\* ------------------------------------------------- the helpers on their own
\* Objects with each capture-id path absent, holding an id of its own, or
\* holding an id the other paths hold too.
CaptureShapes ==
  {[EmptyData EXCEPT !.capture_id = a, !.camelCaptureId = b,
                     !.snakeCaptureId = c, !.fallbackCaptureId = d] :
     a \in {None, "CAPTURE-FLAT", "CAPTURE-1"},
     b \in {None, "CAPTURE-CAMEL", "CAPTURE-1"},
     c \in {None, "CAPTURE-SNAKE", "CAPTURE-1"},
     d \in {None, "CAPTURE-FALLBACK", "CAPTURE-1"}}
    \cup {UndefinedData}

CurrencyShapes ==
  {[EmptyData EXCEPT !.currency_code = a, !.camelCurrencyCode = b,
                     !.snakeCurrencyCode = c] :
     a \in {None, "gbp", "EUR"},
     b \in {None, "usd", "EUR"},
     c \in {None, "eur", "CAD"}}
    \cup {UndefinedData}

\* The order statuses of the processor, one it does not document, none.
ProcessorStatuses ==
  {"CREATED", "SAVED", "APPROVED", "PAYER_ACTION_REQUIRED", "COMPLETED",
   "VOIDED", "PENDING_APPROVAL", None}

ApplyGetCaptureId ==
  \E result \in CaptureShapes :
    /\ fn' = "getCaptureId"
    /\ arg' = result
    /\ res' = getCaptureId(result)
    /\ UNCHANGED <<orders, sent, pc, op, inp, out, calls, adapter, running>>

ApplyGetCurrencyCode ==
  \E data \in CurrencyShapes :
    /\ fn' = "getCurrencyCode"
    /\ arg' = data
    /\ res' = getCurrencyCode(data)
    /\ UNCHANGED <<orders, sent, pc, op, inp, out, calls, adapter, running>>

ApplyGetStatus ==
  \E status \in ProcessorStatuses, id \in {None, "ORDER-1", "ORDER-2"} :
    /\ fn' = "getStatus"
    /\ arg' = [EmptyData EXCEPT !.id = id, !.status = status]
    /\ res' = getStatus(arg')
    /\ UNCHANGED <<orders, sent, pc, op, inp, out, calls, adapter, running>>

\* The refund request refundPayment builds from payment data and an amount.
ApplyRefundRequest ==
  \E data \in CurrencyShapes, amount \in {NoNumber, Zero, Num(350)} :
    /\ fn' = "refundRequest"
    /\ arg' = [data |-> data, amount |-> amount]
    /\ res' = RefundRequest(data, amount)
    /\ UNCHANGED <<orders, sent, pc, op, inp, out, calls, adapter, running>>

\* Stored account holders with each of email and name absent, empty or set;
\* customers with each field absent or empty, or set; the fields a caller
\* may supply, supplied or not.
HolderShapes ==
  {[StoredHolder EXCEPT !.email = email, !.name = name] :
     email \in {None, "", "old@example.com"}, name \in {None, "Old Name"}}
    \cup {NoHolder}

CustomerShapes ==
  {[HostCustomer EXCEPT !.email = email, !.company_name = company_name,
                        !.first_name = first_name, !.last_name = last_name] :
     email \in {None, "", "ada@example.com"},
     company_name \in {None, "", "Acme"},
     first_name \in {None, "Ada"},
     last_name \in {"", "Lovelace"}}
    \cup {NoCustomer}

FieldShapes ==
  {[NoFields EXCEPT !.id = other.id, !.phone = other.phone,
                    !.email = shown.email, !.name = shown.name] :
     other \in {NoFields, [NoFields EXCEPT !.id = "paypal_other",
                                           !.phone = "777"]},
     shown \in {NoFields, [NoFields EXCEPT !.email = "new@example.com",
                                           !.name = "New Name"]}}

ApplyUpdateAccountHolder ==
  \E account_holder \in HolderShapes, customer \in CustomerShapes,
     data \in FieldShapes :
    /\ fn' = "updateAccountHolder"
    /\ arg' = [context |-> [NoContext EXCEPT !.account_holder = account_holder,
                                             !.customer = customer],
               data |-> data]
    /\ res' = UpdateAccountHolderOutcome(arg'.context, data)
    /\ UNCHANGED <<orders, sent, pc, op, inp, out, calls, adapter, running>>

\* The option sets a host may configure.
OptionShapes ==
  {Options(clientId, clientSecret, isSandbox) :
     clientId \in {None, "", "client-id"},
     clientSecret \in {None, "", "client-secret"},
     isSandbox \in {None, "true", "false"}}

ApplyValidateOptions ==
  \E options \in OptionShapes :
    /\ fn' = "validateOptions"
    /\ arg' = options
    /\ res' = validateOptions(options)
    /\ UNCHANGED <<orders, sent, pc, op, inp, out, calls, adapter, running>>

NextHelpers ==
  \/ ApplyValidateOptions
  \/ ApplyGetCaptureId
  \/ ApplyGetCurrencyCode
  \/ ApplyGetStatus
  \/ ApplyRefundRequest
  \/ ApplyUpdateAccountHolder

SpecHelpers == Init /\ [][NextHelpers]_vars

Next ==
  \/ initiatePayment
  \/ updatePayment
  \/ authorizePayment
  \/ capturePayment
  \/ getPaymentStatus
  \/ retrievePayment
  \/ cancelPayment
  \/ deletePayment
  \/ refundPayment
  \/ getWebhookActionAndData
  \/ createAccountHolder
  \/ updateAccountHolder
  \/ deleteAccountHolder
  \/ savePaymentMethod
  \/ listPaymentMethods
  \/ HostReceive
  \/ PayerApproves

Spec == Init /\ [][Next]_vars

\* ------------------------------------------------------------------ claims
\* The decimal string of n / 100 with two fraction digits, n >= 0 an integer.
DecimalOfCents(n) ==
  IntToStr(n \div 100) \o <<".">>
    \o <<DigitChars[((n % 100) \div 10) + 1], DigitChars[(n % 10) + 1]>>

\* s is a decimal string with exactly two fraction digits.
IsTwoDigitDecimal(s) ==
  /\ Len(s) >= 4
  /\ s[Len(s) - 2] = "."
  /\ \A k \in (1..Len(s)) \ {Len(s) - 2} : IsDigit(s[k])

\* The integer of minor units a two-digit decimal string denotes: its digits
\* with the point removed ("12.34" is 1234).
CentsOfDecimal(s) == StrToInt(SelectSeq(s, IsDigit))

\* The first processor call of the operation that ended failed.
FirstCallFailed == calls # << >> /\ ~calls[1].ok

\* C1: for an integer minor-unit amount A, the amount value initiatePayment
\* puts in the created order's purchase unit, and refundPayment in a partial
\* refund request, is the decimal string of A/100 with two fraction digits.
C1_ValueIsAmountOver100 ==
  ( /\ pc = "done"
    /\ op \in {"initiatePayment", "refundPayment"}
    /\ calls # << >>
    /\ calls[1].body.hasAmount
    /\ inp.amount.frac = 0 )
  => calls[1].body.value = DecimalOfCents(inp.amount.whole)

\* C2: a PAYMENT.CAPTURE.COMPLETED event with custom_id s and a two-digit
\* decimal amount value d yields SUCCESSFUL, session_id s and the amount d
\* in integer minor units (d x 100).
C2_CaptureCompletedInMinorUnits ==
  ( /\ pc = "done"
    /\ op = "getWebhookActionAndData"
    /\ inp.event.event_type = "PAYMENT.CAPTURE.COMPLETED"
    /\ inp.event.custom_id # None
    /\ IsTwoDigitDecimal(inp.event.value) )
  => /\ out.kind = "return"
     /\ out.action = "SUCCESSFUL"
     /\ out.session_id = inp.event.custom_id
     /\ out.amount = Num(CentsOfDecimal(inp.event.value))

\* C3: when the processor echoes, in a PAYMENT.CAPTURE.COMPLETED webhook,
\* the amount value initiatePayment sent for host amount A, the webhook
\* result carries amount A.
C3_AmountRoundTrip ==
  ( /\ pc = "done"
    /\ op = "getWebhookActionAndData"
    /\ inp.event.event_type = "PAYMENT.CAPTURE.COMPLETED"
    /\ sent.value # NoStr
    /\ inp.event.value = sent.value )
  => out.amount = sent.amount

C3_Witness ==
  /\ pc = "done"
  /\ op = "getWebhookActionAndData"
  /\ inp.event.event_type = "PAYMENT.CAPTURE.COMPLETED"
  /\ sent.amount = Num(350)
  /\ inp.event.value = sent.value
  /\ out.amount = Num(350)

\* C4: getStatus maps CREATED, SAVED and APPROVED to pending,
\* PAYER_ACTION_REQUIRED to requires_more, COMPLETED to captured, VOIDED to
\* canceled and every other status, an absent one included, to pending; it
\* never yields error.
C4_StatusMapping ==
  fn = "getStatus" =>
    /\ res.data = arg
    /\ res.status \in {"pending", "requires_more", "captured", "canceled"}
    /\ arg.status \in {"CREATED", "SAVED", "APPROVED"} => res.status = "pending"
    /\ arg.status = "PAYER_ACTION_REQUIRED" => res.status = "requires_more"
    /\ arg.status = "COMPLETED" => res.status = "captured"
    /\ arg.status = "VOIDED" => res.status = "canceled"
    /\ arg.status \notin {"CREATED", "SAVED", "APPROVED", "PAYER_ACTION_REQUIRED",
                          "COMPLETED", "VOIDED"} => res.status = "pending"

C4_Witness ==
  /\ fn = "getStatus"
  /\ arg.status = None
  /\ res.status = "pending"

\* The capture-order call of authorizePayment was rejected with this status
\* code for an order the processor has already captured.
AlreadyCapturedConflict(code) ==
  /\ pc = "done"
  /\ op = "authorizePayment"
  /\ calls # << >>
  /\ calls[1].api = "captureOrder"
  /\ ~calls[1].ok
  /\ calls[1].statusCode = code
  /\ OrderIndex(inp.data.id) # 0
  /\ orders[OrderIndex(inp.data.id)].status = "COMPLETED"

\* authorizePayment returned what getPaymentStatus returns on its input.
ReturnedPaymentStatus ==
  /\ out.kind = "return"
  /\ [out |-> out, calls |-> Tail(calls)] \in PaymentStatusOutcomes(inp.data)

\* C5 as claimed: on an already-captured conflict with status code 409 or
\* 422, authorizePayment returns the result of getPaymentStatus on its input.
C5_ConflictFallsBack409Or422 ==
  \A code \in {409, 422} : AlreadyCapturedConflict(code) => ReturnedPaymentStatus

\* C5 as amended: on an already-captured conflict with status code 422,
\* authorizePayment returns the result of getPaymentStatus on its input; with
\* status code 409 it throws an authorization error.
C5_Conflict422FallsBack ==
  /\ AlreadyCapturedConflict(422) => ReturnedPaymentStatus
  /\ AlreadyCapturedConflict(409) =>
       out.kind = "throw" /\ out.error = "PAYMENT_AUTHORIZATION_ERROR"

C5_Witness ==
  /\ AlreadyCapturedConflict(422)
  /\ Len(calls) = 2
  /\ calls[2].api = "getOrder"
  /\ calls[2].ok
  /\ out.status = "captured"

\* C6: getPaymentStatus never throws; when the get-order call fails it
\* returns status error with the input data (an empty record for no data).
C6_StatusNeverThrows ==
  (pc = "done" /\ op = "getPaymentStatus") =>
    /\ out.kind = "return"
    /\ FirstCallFailed =>
         /\ out.status = "error"
         /\ out.data = IF inp.data.undef THEN EmptyData ELSE inp.data

C6_Witness ==
  /\ pc = "done"
  /\ op = "getPaymentStatus"
  /\ calls # << >>
  /\ calls[1].api = "getOrder"
  /\ ~calls[1].ok
  /\ out.kind = "return"
  /\ out.status = "error"
  /\ out.data = inp.data

\* C7: getPaymentStatus on input data without an order id returns pending
\* with the input data unchanged and makes no processor call.
C7_NoOrderIdIsPending ==
  (pc = "done" /\ op = "getPaymentStatus" /\ ~inp.data.undef /\ inp.data.id = None) =>
    /\ out.kind = "return"
    /\ out.status = "pending"
    /\ out.data = inp.data
    /\ calls = << >>

C7_Witness ==
  /\ pc = "done"
  /\ op = "getPaymentStatus"
  /\ inp.data.id = None
  /\ inp.data.session_id = "sess_1"
  /\ out.status = "pending"
  /\ out.data = inp.data
  /\ calls = << >>

\* No capture id is present on any of the four paths of the refund's data.
NoCaptureIdInInput ==
  /\ inp.data.capture_id = None
  /\ inp.data.camelCaptureId = None
  /\ inp.data.snakeCaptureId = None
  /\ inp.data.fallbackCaptureId = None

\* C8: refundPayment on data without a resolvable capture id throws
\* INVALID_DATA for every amount and makes no processor call.
C8_RefundWithoutCaptureId ==
  (pc = "done" /\ op = "refundPayment" /\ NoCaptureIdInInput) =>
    /\ out.kind = "throw"
    /\ out.error = "INVALID_DATA"
    /\ calls = << >>

C8_Witness ==
  /\ pc = "done"
  /\ op = "refundPayment"
  /\ NoCaptureIdInInput
  /\ inp.data.id = "ORDER-1"
  /\ inp.amount = Num(350)
  /\ out.error = "INVALID_DATA"
  /\ calls = << >>

\* C9: getCaptureId returns the first present of the flat capture_id, the
\* camelCase path, the snake_case path and the fallback path, in this order
\* (camelCase before snake_case), and undefined only when all are absent.
C9_CaptureIdPrecedence ==
  fn = "getCaptureId" =>
    /\ arg.capture_id # None => res = arg.capture_id
    /\ (arg.capture_id = None /\ arg.camelCaptureId # None) =>
         res = arg.camelCaptureId
    /\ (arg.capture_id = None /\ arg.camelCaptureId = None
          /\ arg.snakeCaptureId # None) => res = arg.snakeCaptureId
    /\ (arg.capture_id = None /\ arg.camelCaptureId = None
          /\ arg.snakeCaptureId = None) => res = arg.fallbackCaptureId
    /\ res = None <=>
         (arg.capture_id = None /\ arg.camelCaptureId = None
            /\ arg.snakeCaptureId = None /\ arg.fallbackCaptureId = None)

C9_Witness ==
  /\ fn = "getCaptureId"
  /\ arg.capture_id = None
  /\ arg.camelCaptureId = "CAPTURE-CAMEL"
  /\ arg.snakeCaptureId = "CAPTURE-SNAKE"
  /\ res = "CAPTURE-CAMEL"

\* C10: the refund request of refundPayment carries an amount if and only
\* if the host supplied one, zero included.
C10_RefundAmountIffSupplied ==
  (pc = "done" /\ op = "refundPayment" /\ calls # << >>) =>
    (calls[1].body.hasAmount <=> inp.amount # NoNumber)

\* The upper-case form of a currency code.
UpperCaseOf(c) ==
  CASE c \in {"usd", "USD"} -> "USD"
    [] c \in {"eur", "EUR"} -> "EUR"
    [] c \in {"gbp", "GBP"} -> "GBP"
    [] c \in {"cad", "CAD"} -> "CAD"

\* C11: the currency of a partial refund is the first present of the flat
\* currency_code, the camelCase path and the snake_case path of the payment
\* data, else USD, and it is sent in upper case.
C11_RefundCurrency ==
  (fn = "refundRequest" /\ res.hasAmount) =>
    LET d == arg.data IN
    /\ d.currency_code # None => res.currencyCode = UpperCaseOf(d.currency_code)
    /\ (d.currency_code = None /\ d.camelCurrencyCode # None) =>
         res.currencyCode = UpperCaseOf(d.camelCurrencyCode)
    /\ (d.currency_code = None /\ d.camelCurrencyCode = None
          /\ d.snakeCurrencyCode # None) =>
         res.currencyCode = UpperCaseOf(d.snakeCurrencyCode)
    /\ (d.currency_code = None /\ d.camelCurrencyCode = None
          /\ d.snakeCurrencyCode = None) => res.currencyCode = "USD"

C11_Witness ==
  /\ fn = "refundRequest"
  /\ res.hasAmount
  /\ arg.data.currency_code = "gbp"
  /\ arg.data.camelCurrencyCode = "usd"
  /\ arg.data.snakeCurrencyCode = "eur"
  /\ res.currencyCode = "GBP"

\* C12: when listing saved payment methods fails at the processor, a 404
\* yields the empty list, and every other failure is thrown as INVALID_DATA.
C12_ListFailure ==
  (pc = "done" /\ op = "listPaymentMethods" /\ FirstCallFailed) =>
    /\ calls[1].statusCode = 404 =>
         (out.kind = "return" /\ out.list = << >>)
    /\ calls[1].statusCode # 404 =>
         (out.kind = "throw" /\ out.error = "INVALID_DATA")

C12_Witness ==
  /\ pc = "done"
  /\ op = "listPaymentMethods"
  /\ Len(calls) = 1
  /\ calls[1].api = "listCustomerPaymentTokens"
  /\ ~calls[1].ok
  /\ calls[1].statusCode = 404
  /\ out.kind = "return"
  /\ out.list = << >>

\* C13: a failed processor call in initiatePayment, in authorizePayment
\* (unless it is the already-captured conflict), in refundPayment and in
\* savePaymentMethod is thrown as PAYMENT_AUTHORIZATION_ERROR with the
\* upstream message; none of them returns a value or throws a data error.
C13_FailedCallIsAuthorizationError ==
  ( /\ pc = "done"
    /\ op \in {"initiatePayment", "authorizePayment", "refundPayment",
               "savePaymentMethod"}
    /\ FirstCallFailed
    /\ \A code \in {409, 422} : ~AlreadyCapturedConflict(code) ) =>
    /\ out.kind = "throw"
    /\ out.error = "PAYMENT_AUTHORIZATION_ERROR"
    /\ out.message = ApiError(calls[1].statusCode).message

\* C14: initiatePayment without a currency or without an amount fails with
\* INVALID_DATA, not with an authorization error, and makes no create-order
\* call.
C14_MissingCurrencyOrAmountIsDataError ==
  ( /\ pc = "done"
    /\ op = "initiatePayment"
    /\ (inp.currency_code = None \/ inp.amount = NoNumber) ) =>
    /\ out.kind = "throw"
    /\ out.error = "INVALID_DATA"
    /\ calls = << >>

\* The input carries no account-holder id.
NoAccountHolderId == inp.context.account_holder.id \in {None, ""}

\* The operation failed with a data error before it called the processor.
DataErrorBeforeAnyCall ==
  /\ out.kind = "throw"
  /\ out.error = "INVALID_DATA"
  /\ calls = << >>

\* C15: authorizePayment without an order id, and updateAccountHolder,
\* deleteAccountHolder and savePaymentMethod without an account-holder id,
\* fail with INVALID_DATA before any processor call; deleteAccountHolder with
\* an id succeeds without doing anything.
C15_MissingIdentifierIsDataError ==
  pc = "done" =>
    /\ (op = "authorizePayment" /\ inp.data.id = None) => DataErrorBeforeAnyCall
    /\ ( /\ op \in {"updateAccountHolder", "deleteAccountHolder",
                    "savePaymentMethod"}
         /\ NoAccountHolderId ) => DataErrorBeforeAnyCall
    /\ (op = "deleteAccountHolder" /\ ~NoAccountHolderId) =>
         (out = [NoOutput EXCEPT !.kind = "return"] /\ calls = << >>)

C15_Witness ==
  /\ pc = "done"
  /\ op = "updateAccountHolder"
  /\ ~inp.context.account_holder.undef
  /\ inp.context.account_holder.id = None
  /\ inp.fields.email = "new@example.com"
  /\ out.kind = "throw"
  /\ out.error = "INVALID_DATA"
  /\ calls = << >>

\* C16: cancelPayment and deletePayment return exactly the data they were
\* given, call the processor not at all, and leave every order at the
\* processor as it was.
C16_CancelAndDeleteEcho ==
  [][ (pc = "idle" /\ pc' = "done"
         /\ op' \in {"cancelPayment", "deletePayment"}) =>
        /\ out'.kind = "return"
        /\ out' = [NoOutput EXCEPT !.kind = "return", !.data = inp'.data]
        /\ calls' = << >>
        /\ orders' = orders ]_vars

C16_Witness ==
  /\ pc = "done"
  /\ op = "deletePayment"
  /\ Len(orders) >= 1
  /\ orders[1].status = "APPROVED"
  /\ inp.data.id = OrderIds[1]
  /\ out.kind = "return"
  /\ out.data = inp.data
  /\ calls = << >>

\* C17: a successful updatePayment issues exactly one create-order request
\* and nothing else; the orders that existed are unchanged, one order is
\* added, and the id and status returned are those of the added order.
C17_UpdateCreatesNewOrder ==
  [][ (pc = "idle" /\ pc' = "done" /\ op' = "updatePayment"
         /\ out'.kind = "return") =>
        LET n == Len(orders') IN
        /\ Len(calls') = 1
        /\ calls'[1].api = "createOrder"
        /\ n = Len(orders) + 1
        /\ SubSeq(orders', 1, Len(orders)) = orders
        /\ out'.id = OrderIds[n]
        /\ out'.id # inp'.data.id
        /\ out'.data.status = orders'[n].status
        /\ out'.status = IF orders'[n].status = "PAYER_ACTION_REQUIRED"
                         THEN "requires_more" ELSE "pending" ]_vars

C17_Witness ==
  /\ pc = "done"
  /\ op = "updatePayment"
  /\ out.kind = "return"
  /\ inp.data.id = OrderIds[1]
  /\ Len(orders) = 2
  /\ orders[1].status = "APPROVED"
  /\ out.id = OrderIds[2]
  /\ Len(calls) = 1
  /\ calls[1].api = "createOrder"

\* C18: capturePayment and retrievePayment do what getPaymentStatus does on
\* the same input: the same result and the same processor calls, which are at
\* most one get-order and never a capture-order; no order changes.
C18_CaptureAndRetrieveAreStatus ==
  [][ (pc = "idle" /\ pc' = "done"
         /\ op' \in {"capturePayment", "retrievePayment"}) =>
        /\ [out |-> out', calls |-> calls'] \in PaymentStatusOutcomes(inp'.data)
        /\ Len(calls') <= 1
        /\ \A i \in 1..Len(calls') :
             calls'[i].api = "getOrder" /\ calls'[i].id = inp'.data.id
        /\ orders' = orders ]_vars

C18_Witness ==
  /\ pc = "done"
  /\ op = "capturePayment"
  /\ inp.data.id = OrderIds[1]
  /\ Len(orders) >= 1
  /\ orders[1].status = "APPROVED"
  /\ Len(calls) = 1
  /\ calls[1].api = "getOrder"
  /\ calls[1].ok
  /\ out.kind = "return"
  /\ out.status = "pending"

\* C19: createAccountHolder calls the processor not at all. With an account
\* holder id in the context it returns that id, customer or not; otherwise it
\* returns "paypal_" followed by the customer's id; with neither it fails
\* with INVALID_DATA.
C19_CreateAccountHolderIsLocal ==
  (pc = "done" /\ op = "createAccountHolder") =>
    LET existing == inp.context.account_holder.id
        customer == inp.context.customer
    IN  /\ calls = << >>
        /\ existing \notin {None, ""} =>
             (out.kind = "return" /\ out.id = existing)
        /\ (existing \in {None, ""} /\ ~customer.undef) =>
             /\ out.kind = "return"
             /\ customer.id = "cus_1" => out.id = "paypal_cus_1"
             /\ out.holder.id = out.id
        /\ (existing \in {None, ""} /\ customer.undef) =>
             (out.kind = "throw" /\ out.error = "INVALID_DATA")

C19_Witness ==
  /\ pc = "done"
  /\ op = "createAccountHolder"
  /\ inp.context.account_holder.id = "paypal_cus_0"
  /\ inp.context.customer.undef
  /\ out.kind = "return"
  /\ out.id = "paypal_cus_0"
  /\ calls = << >>

\* The customer's display name: the company name, else first and last name
\* joined and trimmed; empty when the customer has none of them.
DisplayName(customer) ==
  IF customer.company_name \notin {None, ""} THEN customer.company_name
  ELSE IF customer.first_name = "Ada" /\ customer.last_name = "Lovelace"
  THEN "Ada Lovelace"
  ELSE IF customer.first_name = "Ada" THEN "Ada"
  ELSE IF customer.last_name = "Lovelace" THEN "Lovelace"
  ELSE ""

\* C20: updateAccountHolder returns the stored data with the supplied fields
\* over it, except that email and name are the customer's current email and
\* name when those are non-empty and the stored ones otherwise; a supplied
\* email or name never wins.
C20_UpdateMergesButCustomerWins ==
  (fn = "updateAccountHolder" /\ res.kind = "return") =>
    LET stored == arg.context.account_holder
        customer == arg.context.customer
        supplied == arg.data
        updated == res.holder
    IN  /\ updated.id = IF supplied.id = Absent THEN stored.id ELSE supplied.id
        /\ updated.phone =
             IF supplied.phone = Absent THEN stored.phone ELSE supplied.phone
        /\ updated.email =
             IF customer.email \notin {None, ""} THEN customer.email
             ELSE stored.email
        /\ updated.name =
             IF DisplayName(customer) # "" THEN DisplayName(customer)
             ELSE stored.name
        /\ updated.email # "new@example.com"
        /\ updated.name # "New Name"

C20_Witness ==
  /\ fn = "updateAccountHolder"
  /\ res.kind = "return"
  /\ arg.data.email = "new@example.com"
  /\ arg.data.name = "New Name"
  /\ arg.data.phone = "777"
  /\ arg.context.customer.email = ""
  /\ arg.context.customer.company_name = ""
  /\ arg.context.customer.first_name = "Ada"
  /\ arg.context.customer.last_name = "Lovelace"
  /\ arg.context.account_holder.email = "old@example.com"
  /\ res.holder.email = "old@example.com"
  /\ res.holder.name = "Ada Lovelace"
  /\ res.holder.phone = "777"

\* The action the table gives for an event type.
ActionOfEventType(t) ==
  CASE t \in {"PAYMENT.CAPTURE.COMPLETED", "PAYMENT.CAPTURE.REFUNDED"} ->
         "SUCCESSFUL"
    [] t \in {"PAYMENT.CAPTURE.DENIED", "PAYMENT.CAPTURE.DECLINED"} -> "FAILED"
    [] t = "CHECKOUT.ORDER.APPROVED" -> "AUTHORIZED"
    [] OTHER -> "NOT_SUPPORTED"

\* C21: getWebhookActionAndData maps the event type to the action by the
\* fixed table; for CHECKOUT.ORDER.APPROVED the session id and the amount
\* come from the first purchase unit; an event type outside the table, or
\* none, gives NOT_SUPPORTED with amount 0 and an empty session id; the
\* processor is not called.
C21_WebhookTable ==
  (pc = "done" /\ op = "getWebhookActionAndData") =>
    LET e == inp.event IN
    /\ calls = << >>
    /\ out.kind = "return"
    /\ out.action = ActionOfEventType(e.event_type)
    /\ out.action = "NOT_SUPPORTED" => (out.session_id = "" /\ out.amount = Zero)
    /\ (out.action = "AUTHORIZED" /\ e.units # None) =>
         /\ out.session_id = IF e.unit_custom_id # None THEN e.unit_custom_id
                             ELSE e.unit_customId
         /\ e.unit_value = <<"1", "2", ".", "3", "4">> =>
              out.amount = [whole |-> 12, frac |-> 34]
         /\ e.unit_value = << >> => out.amount = Zero

C21_Witness ==
  /\ pc = "done"
  /\ op = "getWebhookActionAndData"
  /\ inp.event.event_type = "CHECKOUT.ORDER.APPROVED"
  /\ inp.event.units = "purchase_units"
  /\ inp.event.unit_customId = "sess_2"
  /\ inp.event.unit_value = <<"1", "2", ".", "3", "4">>
  /\ out.action = "AUTHORIZED"
  /\ out.session_id = "sess_2"
  /\ out.amount = [whole |-> 12, frac |-> 34]
  /\ calls = << >>

\* C22: validateOptions throws INVALID_DATA when clientId is missing or
\* empty, or clientSecret is missing or empty, and accepts every other option
\* set, whatever isSandbox is.
C22_ValidateOptions ==
  fn = "validateOptions" =>
    IF arg.clientId = "client-id" /\ arg.clientSecret = "client-secret"
    THEN res.kind = "return"
    ELSE res.kind = "throw" /\ res.error = "INVALID_DATA"

C22_Witness ==
  /\ fn = "validateOptions"
  /\ arg.clientId = "client-id"
  /\ arg.clientSecret = ""
  /\ arg.isSandbox = None
  /\ res.kind = "throw"
  /\ res.error = "INVALID_DATA"

\* C23: an operation makes at most two processor calls. authorizePayment
\* makes one capture-order call and, only after the processor rejected it
\* with the conflict status, one get-order call; every other operation makes
\* at most one call; cancelPayment, deletePayment, the account-holder
\* operations and getWebhookActionAndData make none; no call is repeated.
C23_AtMostTwoCalls ==
  pc = "done" =>
    /\ Len(calls) <= 2
    /\ op = "authorizePayment" =>
         /\ calls # << >> => calls[1].api = "captureOrder"
         /\ Len(calls) = 2 =>
              /\ ~calls[1].ok
              /\ calls[1].statusCode = 422
              /\ calls[2].api = "getOrder"
    /\ op # "authorizePayment" => Len(calls) <= 1
    /\ op \in {"cancelPayment", "deletePayment", "createAccountHolder",
               "updateAccountHolder", "deleteAccountHolder",
               "getWebhookActionAndData"} => calls = << >>
    /\ \A i, j \in 1..Len(calls) : i # j => calls[i].api # calls[j].api

C23_Witness ==
  /\ pc = "done"
  /\ op = "authorizePayment"
  /\ Len(calls) = 2
  /\ calls[1].api = "captureOrder"
  /\ calls[1].statusCode = 422
  /\ calls[2].api = "getOrder"
  /\ calls[2].id = calls[1].id

\* The operation returned a value built from the processor's answer to its
\* last call.
ReturnedFromResponse ==
  /\ pc = "done"
  /\ op \in {"authorizePayment", "getPaymentStatus", "capturePayment",
             "retrievePayment"}
  /\ calls # << >>
  /\ calls[Len(calls)].ok
  /\ out.kind = "return"

\* An order becomes captured at the processor only by a successful
\* capture-order call on it.
CapturedOnlyByCaptureCall ==
  \A i \in 1..Len(orders) :
    (orders'[i].status = "COMPLETED" /\ orders[i].status # "COMPLETED") =>
      /\ calls' # << >>
      /\ calls'[1].api = "captureOrder"
      /\ calls'[1].id = OrderIds[i]
      /\ calls'[1].ok

\* C24: the capture_id that authorizePayment, getPaymentStatus,
\* capturePayment or retrievePayment derives from a processor response is
\* defined only for an order on which a capture-order call has succeeded
\* before; until then it is undefined.
C24_CaptureIdOnlyAfterCapture ==
  /\ [](ReturnedFromResponse =>
          LET i == OrderIndex(inp.data.id) IN
          /\ i # 0
          /\ out.data.capture_id # None => orders[i].status = "COMPLETED")
  /\ [][CapturedOnlyByCaptureCall]_vars

C24_Witness ==
  /\ pc = "done"
  /\ op = "retrievePayment"
  /\ inp.data = [EmptyData EXCEPT !.id = OrderIds[1]]
  /\ Len(orders) >= 1
  /\ orders[1].status = "COMPLETED"
  /\ Len(calls) = 1
  /\ calls[1].ok
  /\ out.data.capture_id = CaptureIds[1]

\* The data a successful authorizePayment returns for order i: the capture
\* response with capture_id and currency_code merged into it.
AuthorizedData(i) ==
  [EmptyData EXCEPT !.id = OrderIds[i], !.status = "COMPLETED",
                    !.camelCaptureId = CaptureIds[i],
                    !.camelCurrencyCode = "EUR",
                    !.capture_id = CaptureIds[i], !.currency_code = "EUR"]

\* C25: a successful authorizePayment returns the status mapped from the
\* capture response and the response merged with capture_id, the id of the
\* order's first capture, and currency_code; refundPayment called with that
\* data refunds that capture id, never the order id.
C25_AuthorizeThenRefund ==
  pc = "done" =>
    /\ (op = "authorizePayment" /\ calls # << >> /\ calls[1].ok) =>
         LET i == OrderIndex(inp.data.id) IN
         /\ i # 0
         /\ out.kind = "return"
         /\ out.status = "captured"
         /\ out.data = AuthorizedData(i)
    /\ \A i \in 1..Len(orders) :
         (op = "refundPayment" /\ inp.data = AuthorizedData(i)) =>
           /\ Len(calls) = 1
           /\ calls[1].api = "refundCapturedPayment"
           /\ calls[1].id = CaptureIds[i]
           /\ calls[1].id # OrderIds[i]

C25_Witness ==
  /\ pc = "done"
  /\ op = "refundPayment"
  /\ Len(orders) >= 1
  /\ orders[1].status = "COMPLETED"
  /\ inp.data = AuthorizedData(1)
  /\ Len(calls) = 1
  /\ calls[1].id = "CAPTURE-1"
  /\ calls[1].ok
  /\ out.kind = "return"

\* C26: no operation modifies the provider instance: its options and its
\* client are, after any sequence of operations, those captured at
\* construction, so that no invocation can leave anything behind for a later
\* one.
C26_AdapterStateUnchanged ==
  /\ [](adapter = [options_ |-> HostOptions,
                   client_ |-> [oAuthClientId |-> "client-id",
                                oAuthClientSecret |-> "client-secret",
                                environment |-> "Sandbox"]])
  /\ [][adapter' = adapter]_vars

C26_Witness ==
  /\ pc = "done"
  /\ op = "deleteAccountHolder"
  /\ out.kind = "return"
  /\ Len(orders) = 2
  /\ orders[1].status = "COMPLETED"
  /\ orders[2].status = "APPROVED"
  /\ adapter.options_ = HostOptions
  /\ adapter.client_.environment = "Sandbox"

\* Both invocations have ended, and both were for order i.
BothDoneOn(i) ==
  \A p \in Invocations :
    running[p].pc = "done" /\ running[p].data.id = OrderIds[i]

\* The processor behaved as assumed towards invocation p: the only call it
\* rejected is a capture-order, with status code 422.
AnsweredAsAssumed(p) ==
  \A k \in 1..Len(running[p].calls) :
    LET call == running[p].calls[k] IN
    call.ok \/ (call.api = "captureOrder" /\ call.statusCode = 422)

\* The invocations whose capture-order call succeeded.
Capturers ==
  {p \in Invocations :
     /\ running[p].calls # << >>
     /\ running[p].calls[1].api = "captureOrder"
     /\ running[p].calls[1].ok}

\* C27: two invocations of authorizePayment on the same approved order, in
\* any interleaving, the second capture answered with 422 and the status
\* fetch succeeding: the order is captured exactly once and both return
\* status captured with the same capture_id.
C27_ConcurrentAuthorize ==
  \A i \in 1..Len(orders) :
    ( /\ BothDoneOn(i)
      /\ \E p \in Invocations : running[p].seen = "APPROVED"
      /\ \A p \in Invocations : running[p].seen \in {"APPROVED", "COMPLETED"}
      /\ \A p \in Invocations : AnsweredAsAssumed(p) ) =>
      /\ Cardinality(Capturers) = 1
      /\ orders[i].status = "COMPLETED"
      /\ \A p \in Invocations :
           /\ running[p].out.kind = "return"
           /\ running[p].out.status = "captured"
           /\ running[p].out.data.capture_id = CaptureIds[i]

C27_Witness ==
  /\ BothDoneOn(1)
  /\ \A p \in Invocations : running[p].seen = "APPROVED"
  /\ Len(running["first"].calls) = 2
  /\ running["first"].calls[1].statusCode = 422
  /\ running["first"].calls[2].ok
  /\ Len(running["second"].calls) = 1
  /\ running["second"].calls[1].ok
  /\ running["first"].out.status = "captured"
  /\ running["first"].out.data.capture_id = running["second"].out.data.capture_id

\* C28: once authorizePayment has captured order i and the host passes on
\* the data it got back, every later getPaymentStatus, capturePayment or
\* retrievePayment, whether its get-order call succeeds or fails, returns
\* data from which getCaptureId resolves the same capture id, and a
\* refundPayment with that data does not fail for a missing capture id.
C28_CaptureIdStaysResolvable ==
  \A i \in 1..Len(orders) :
    ( /\ pc = "done"
      /\ orders[i].status = "COMPLETED"
      /\ inp.data = AuthorizedData(i) ) =>
      /\ op \in {"getPaymentStatus", "capturePayment", "retrievePayment"} =>
           /\ out.kind = "return"
           /\ Len(calls) = 1
           /\ out.data.capture_id = CaptureIds[i]
           /\ getCaptureId(out.data) = CaptureIds[i]
           /\ out.data = AuthorizedData(i)
      /\ op = "refundPayment" =>
           /\ ~(out.kind = "throw" /\ out.error = "INVALID_DATA")
           /\ Len(calls) = 1
           /\ calls[1].id = CaptureIds[i]

C28_Witness ==
  /\ pc = "done"
  /\ op = "getPaymentStatus"
  /\ Len(orders) >= 1
  /\ orders[1].status = "COMPLETED"
  /\ inp.data = AuthorizedData(1)
  /\ Len(calls) = 1
  /\ ~calls[1].ok
  /\ out.status = "error"
  /\ getCaptureId(out.data) = "CAPTURE-1"

\* C29: updateAccountHolder preserves the account holder's identity: for
\* every stored account holder and every supplied data record, the id in the
\* returned data is the stored id.
C29_UpdatePreservesId ==
  (fn = "updateAccountHolder" /\ res.kind = "return") =>
    res.holder.id = arg.context.account_holder.id

\* authorizePayment took the path of its catch block for status code 422.
OnConflictPath ==
  /\ pc = "done"
  /\ op = "authorizePayment"
  /\ calls # << >>
  /\ calls[1].api = "captureOrder"
  /\ ~calls[1].ok
  /\ calls[1].statusCode = 422

\* The session status the provider reports for an order status.
MappedStatus(status) ==
  CASE status = "COMPLETED" -> "captured"
    [] status = "PAYER_ACTION_REQUIRED" -> "requires_more"
    [] status = "VOIDED" -> "canceled"
    [] OTHER -> "pending"

\* C30: on the conflict path authorizePayment never throws. It returns the
\* mapped status of the fetched order when the get-order call succeeds, and
\* status error with the input data when it fails; it reports captured only
\* for a fetched order whose status is COMPLETED.
C30_ConflictPathNeverThrows ==
  OnConflictPath =>
    LET i == OrderIndex(inp.data.id) IN
    /\ out.kind = "return"
    /\ Len(calls) = 2
    /\ calls[2].api = "getOrder"
    /\ calls[2].ok =>
         /\ i # 0
         /\ out.status = MappedStatus(orders[i].status)
         /\ out.data.status = orders[i].status
    /\ ~calls[2].ok => (out.status = "error" /\ out.data = inp.data)
    /\ out.status = "captured" =>
         (calls[2].ok /\ orders[i].status = "COMPLETED")

C30_Witness ==
  /\ OnConflictPath
  /\ orders[OrderIndex(inp.data.id)].status = "COMPLETED"
  /\ Len(calls) = 2
  /\ ~calls[2].ok
  /\ out.kind = "return"
  /\ out.status = "error"
  /\ out.data = inp.data

====
